---- MODULE Spec2Model ----
(***************************************************************************)
(* Model of oliver's workflow query and status report.                     *)
(*                                                                         *)
(*   oliver/workflows.py           get_workflows                           *)
(*   oliver/subcommands/status.py  call, get_statuses_to_query,            *)
(*                                 print_workflow_summary                  *)
(*                                                                         *)
(* A workflow record is [id, status, submission]; batch.batch_workflows    *)
(* adds the field batch.  Submission timestamps are whole minutes, the     *)
(* unit of batch_interval_mins.  Python's None is the record None below,   *)
(* an optional value x is Some(x).                                         *)
(***************************************************************************)
EXTENDS Integers, Sequences, FiniteSets, TLC

VARIABLES
    server,                 \* what cromwell.get_workflows_query answers
    args,                   \* the arguments of the call that ran
    pc,                     \* "ready", "returned", "queried", "reported", "raised"
    statuses,               \* the local `statuses`
    batched,                \* `workflows` after batch.batch_workflows
    max_batch_number,       \* the local `max_batch_number`
    batch_number_to_target, \* the local `batch_number_to_target`
    selected,               \* `workflows` after the batch step, before the status filter
    workflows,              \* the final `workflows`
    err,                    \* the exception raised, "none" if none
    metadatas,              \* status.call: id -> metadata, a sequence indexed by position
    agg                     \* print_workflow_summary: group -> status -> count

vars == <<server, args, pc, statuses, batched, max_batch_number,
          batch_number_to_target, selected, workflows, err, metadatas, agg>>

----------------------------------------------------------------------------
(* Bounds of the model. *)

MaxLen == 3
MaxTime == 2
MaxInterval == 2
MaxAgo == 2

(* The statuses the server reports: one the flags name, one they do not. *)
RecordStatuses == {"Running", "Submitted"}

----------------------------------------------------------------------------
(* Python values. *)

None == [none |-> TRUE]
Some(v) == [none |-> FALSE, val |-> v]
IsNone(x) == x.none

(* Truthiness of an Optional[List]: None and [] are both false. *)
ListIsTrue(x) == IF IsNone(x) THEN FALSE ELSE Len(x.val) > 0

(* workflows.py 15-20: the defaults of get_workflows' keyword arguments. *)
DefaultIntervalMins == 5

DefaultArgs ==
    [running |-> FALSE, aborted |-> FALSE, failed |-> FALSE, succeeded |-> FALSE,
     batch_number_ago |-> None, batch_interval_mins |-> DefaultIntervalMins]

----------------------------------------------------------------------------
(* The status selection built from the four flags. *)

(* The chain of `if flag: statuses.append(...)`, in the order of the code. *)
AppendedStatuses(a) ==
    LET s0 == <<>>
        s1 == IF a.running THEN Append(s0, "Running") ELSE s0
        s2 == IF a.aborted THEN Append(s1, "Aborted") ELSE s1
        s3 == IF a.failed THEN Append(s2, "Failed") ELSE s2
        s4 == IF a.succeeded THEN Append(s3, "Succeeded") ELSE s3
    IN  s4

(* Faulty variant: `statuses = []` instead of `statuses = None` as the default. *)
OptInStatusesEmptyDefault(a) ==
    IF a.running \/ a.aborted \/ a.failed \/ a.succeeded
    THEN Some(AppendedStatuses(a))
    ELSE Some(<<>>)

(* workflows.py 90-97 *)
OptInStatuses(a) ==
    IF a.running \/ a.aborted \/ a.failed \/ a.succeeded
    THEN Some(AppendedStatuses(a))
    ELSE None

(* Faulty variant: the Failed flag appends "Aborted" (a copy-paste slip). *)
get_statuses_to_query_slip(a) ==
    IF a.running \/ a.aborted \/ a.failed \/ a.succeeded
    THEN Some(LET s0 == <<>>
                  s1 == IF a.running THEN Append(s0, "Running") ELSE s0
                  s2 == IF a.aborted THEN Append(s1, "Aborted") ELSE s1
                  s3 == IF a.failed THEN Append(s2, "Aborted") ELSE s2
                  s4 == IF a.succeeded THEN Append(s3, "Succeeded") ELSE s3
              IN  s4)
    ELSE None

(* status.py 160-192 *)
get_statuses_to_query(a) ==
    IF a.running \/ a.aborted \/ a.failed \/ a.succeeded
    THEN Some(AppendedStatuses(a))
    ELSE None

(* `x["status"] in statuses` *)
InList(x, xs) == \E i \in 1..Len(xs) : xs[i] = x

(* workflows.py 130-131, status.py 59-60: `if statuses:` then the filter. *)
StatusFilter(ws, st) ==
    IF ListIsTrue(st)
    THEN SelectSeq(ws, LAMBDA x : InList(x.status, st.val))
    ELSE ws

----------------------------------------------------------------------------
(* sorted(..., key=lambda k: k["submission"]): a stable ascending sort. *)

(* Faulty variant: an unstable sort, which puts a record before its ties. *)
InsertByKeyBeforeTies(s, w) ==
    LET p == Cardinality({i \in 1..Len(s) : s[i].submission < w.submission})
    IN  SubSeq(s, 1, p) \o <<w>> \o SubSeq(s, p + 1, Len(s))

(* w goes after every record of the sorted s whose key is <= its own. *)
InsertByKey(s, w) ==
    LET p == Cardinality({i \in 1..Len(s) : s[i].submission <= w.submission})
    IN  SubSeq(s, 1, p) \o <<w>> \o SubSeq(s, p + 1, Len(s))

RECURSIVE SortFrom(_, _)
SortFrom(rest, acc) ==
    IF Len(rest) = 0 THEN acc
    ELSE SortFrom(Tail(rest), InsertByKey(acc, Head(rest)))

(* workflows.py 112-121, status.py 39-48 *)
sorted_by_submission(ws) == SortFrom(ws, <<>>)

----------------------------------------------------------------------------
(* batch.batch_workflows, whose module is not among the sources: the walk   *)
(* of the design, section 4.4.                                              *)

Annotate(w, b) ==
    [id |-> w.id, status |-> w.status, submission |-> w.submission, batch |-> b]

RECURSIVE BatchWalk(_, _, _, _, _)
BatchWalk(rest, threshold, current_batch_index, previous_timestamp, acc) ==
    IF Len(rest) = 0 THEN acc
    ELSE LET w == Head(rest)
             idx == IF IsNone(previous_timestamp) THEN current_batch_index
                    ELSE IF w.submission - previous_timestamp.val >= threshold
                         THEN current_batch_index + 1
                         ELSE current_batch_index
         IN  BatchWalk(Tail(rest), threshold, idx, Some(w.submission),
                       Append(acc, Annotate(w, idx)))

batch_workflows(ws, batch_interval_mins) ==
    BatchWalk(ws, batch_interval_mins, 0, None, <<>>)

(* Faulty variant: the call drops its second argument, so the default applies. *)
BatchStepDefaultInterval(ws, batch_interval_mins) ==
    batch_workflows(ws, DefaultIntervalMins)

(* workflows.py 124, status.py 51 *)
BatchStep(ws, batch_interval_mins) ==
    batch_workflows(ws, batch_interval_mins)

(* Faulty variant: min instead of max. *)
MinBatchNumber(ws) ==
    IF Len(ws) = 0 THEN [raised |-> TRUE]
    ELSE [raised |-> FALSE,
          val |-> CHOOSE m \in {ws[i].batch : i \in 1..Len(ws)} :
                     \A i \in 1..Len(ws) : ws[i].batch >= m]

(* workflows.py 125, status.py 52: max([w["batch"] for w in workflows]);    *)
(* max of an empty list raises ValueError.                                  *)
MaxBatchNumber(ws) ==
    IF Len(ws) = 0 THEN [raised |-> TRUE]
    ELSE [raised |-> FALSE,
          val |-> CHOOSE m \in {ws[i].batch : i \in 1..Len(ws)} :
                     \A i \in 1..Len(ws) : ws[i].batch <= m]

(* Faulty variant: a negative target is clamped to the oldest batch. *)
BatchNumberToTargetClamped(max_batch, ago) ==
    IF max_batch - ago < 0 THEN 0 ELSE max_batch - ago

(* Faulty variant: batches counted from the oldest, not from the most recent. *)
BatchNumberToTargetFromOldest(max_batch, ago) == ago

(* workflows.py 126, status.py 53 *)
BatchNumberToTarget(max_batch, ago) == max_batch - ago

(* workflows.py 128, status.py 55-57 *)
SelectBatch(ws, target) == SelectSeq(ws, LAMBDA x : x.batch = target)

----------------------------------------------------------------------------
(* The query: sort, batch step, status filter.  The result carries the     *)
(* locals of the function; raised is TRUE when max() raised ValueError,    *)
(* and then nothing is returned.                                           *)

Raised(b) ==
    [raised |-> TRUE, batched |-> b, max |-> None, target |-> None,
     selected |-> <<>>, workflows |-> <<>>]

(* Faulty variant: the status filter runs before the batch step. *)
QueryPipelineFilterFirst(fetched, a, st) ==
    LET ws0 == StatusFilter(sorted_by_submission(fetched), st)
    IN  IF IsNone(a.batch_number_ago)
        THEN [raised |-> FALSE, batched |-> <<>>, max |-> None, target |-> None,
              selected |-> ws0, workflows |-> ws0]
        ELSE LET b == BatchStep(ws0, a.batch_interval_mins)
                 m == MaxBatchNumber(b)
             IN  IF m.raised THEN Raised(b)
                 ELSE LET t == BatchNumberToTarget(m.val, a.batch_number_ago.val)
                          sel == SelectBatch(b, t)
                      IN  [raised |-> FALSE, batched |-> b, max |-> Some(m.val),
                           target |-> Some(t), selected |-> sel, workflows |-> sel]

(* workflows.py 112-133, status.py 39-60 *)
QueryPipeline(fetched, a, st) ==
    LET ws0 == sorted_by_submission(fetched)
    IN  IF IsNone(a.batch_number_ago)
        THEN [raised |-> FALSE, batched |-> <<>>, max |-> None, target |-> None,
              selected |-> ws0, workflows |-> StatusFilter(ws0, st)]
        ELSE LET b == BatchStep(ws0, a.batch_interval_mins)
                 m == MaxBatchNumber(b)
             IN  IF m.raised THEN Raised(b)
                 ELSE LET t == BatchNumberToTarget(m.val, a.batch_number_ago.val)
                          sel == SelectBatch(b, t)
                      IN  [raised |-> FALSE, batched |-> b, max |-> Some(m.val),
                           target |-> Some(t), selected |-> sel,
                           workflows |-> StatusFilter(sel, st)]

----------------------------------------------------------------------------
(* The summary of status.call. *)

(* constants.OLIVER_JOB_GROUP_KEY and utils.get_oliver_group are not among  *)
(* the sources: the job-group label of the metadata, None when absent.      *)
get_oliver_group(m) == m.group

(* `not job_group`: None and the empty string are both false. *)
NotGroup(g) == IF IsNone(g) THEN TRUE ELSE g.val = ""

(* status.py 207-209 *)
JobGroupOf(m) ==
    LET job_group == get_oliver_group(m)
    IN  IF NotGroup(job_group) THEN "<not set>" ELSE job_group.val

(* Faulty variant: the status of the listing, not of the metadata. *)
CountedStatusOfListing(w, m) == w.status

(* status.py 211: the status counted is m["status"]. *)
CountedStatus(w, m) == m.status

(* agg[job_group][status] += 1 on a defaultdict of defaultdict(int) *)
Increment(acc, g, s) ==
    IF g \notin DOMAIN acc THEN acc @@ (g :> (s :> 1))
    ELSE [acc EXCEPT ![g] = IF s \in DOMAIN @
                            THEN [@ EXCEPT ![s] = @ + 1]
                            ELSE @ @@ (s :> 1)]

RECURSIVE Aggregate(_, _, _)
Aggregate(ws, metas, acc) ==
    IF Len(ws) = 0 THEN acc
    ELSE LET w == Head(ws)
             m == metas[w.id]
         IN  Aggregate(Tail(ws), metas,
                       Increment(acc, JobGroupOf(m), CountedStatus(w, m)))

(* status.py 203-211 *)
print_workflow_summary(ws, metas) == Aggregate(ws, metas, <<>>)

----------------------------------------------------------------------------
(* Inputs. *)

RecordsOfLen(n, times) ==
    { [i \in 1..n |-> [id |-> i, status |-> f[i].status,
                       submission |-> f[i].submission]] :
        f \in [1..n -> [status : RecordStatuses, submission : times]] }

(* The answers of the server: up to MaxLen records, the i-th with id i. *)
Servers == UNION { RecordsOfLen(n, 0..MaxTime) : n \in 0..MaxLen }

(* The answers in which every workflow was submitted in the same minute. *)
ServersOfOneMinute == UNION { RecordsOfLen(n, {0}) : n \in 0..MaxLen }

ArgSets ==
    [running : BOOLEAN, aborted : BOOLEAN, failed : BOOLEAN, succeeded : BOOLEAN,
     batch_number_ago : {None} \cup {Some(n) : n \in 0..MaxAgo},
     batch_interval_mins : 0..MaxInterval]

Groups == {None, Some("alpha"), Some("beta")}

Metadata == [status : RecordStatuses, group : Groups]

----------------------------------------------------------------------------
(* The state machine. *)

Start(s) ==
    /\ server = s
    /\ args = DefaultArgs
    /\ pc = "ready"
    /\ statuses = None
    /\ batched = <<>>
    /\ max_batch_number = None
    /\ batch_number_to_target = None
    /\ selected = <<>>
    /\ workflows = <<>>
    /\ err = "none"
    /\ metadatas = <<>>
    /\ agg = <<>>

Init == \E s \in Servers : Start(s)

Ran(a, st, r, done) ==
    /\ args' = a
    /\ statuses' = st
    /\ batched' = r.batched
    /\ max_batch_number' = r.max
    /\ batch_number_to_target' = r.target
    /\ selected' = r.selected
    /\ workflows' = r.workflows
    /\ pc' = IF r.raised THEN "raised" ELSE done
    /\ err' = IF r.raised THEN "ValueError" ELSE "none"
    /\ UNCHANGED <<server, metadatas, agg>>

(* workflows.py 8-133 *)
GetWorkflows ==
    /\ pc = "ready"
    /\ \E a \in ArgSets :
          LET st == OptInStatuses(a)
          IN  Ran(a, st, QueryPipeline(server, a, st), "returned")

(* status.py 13-60: call, up to the status filter. *)
CallQueryWith(a) ==
    /\ pc = "ready"
    /\ LET st == get_statuses_to_query(a)
       IN  Ran(a, st, QueryPipeline(server, a, st), "queried")

CallQuery == \E a \in ArgSets : CallQueryWith(a)

(* status.py 62-63: call, the metadata of every workflow and the summary. *)
CallReport ==
    /\ pc = "queried"
    /\ \E metas \in [{workflows[i].id : i \in 1..Len(workflows)} -> Metadata] :
          /\ metadatas' = metas
          /\ agg' = print_workflow_summary(workflows, metas)
    /\ pc' = "reported"
    /\ UNCHANGED <<server, args, statuses, batched, max_batch_number,
                   batch_number_to_target, selected, workflows, err>>

Next == GetWorkflows \/ CallQuery

Spec == Init /\ [][Next]_vars

(* status.call with the defaults of its parser, on workflows submitted in   *)
(* one minute, with the report.                                             *)
InitSummary == \E s \in ServersOfOneMinute : Start(s)

NextSummary == CallQueryWith(DefaultArgs) \/ CallReport

SpecSummary == InitSummary /\ [][NextSummary]_vars

----------------------------------------------------------------------------
(* Vocabulary of the properties, stated apart from the operators above. *)

Returned == pc \in {"returned", "queried"}
HasSelector == ~IsNone(args.batch_number_ago)
AnyFlag == args.running \/ args.aborted \/ args.failed \/ args.succeeded

Flag(a, s) ==
    CASE s = "Running" -> a.running
      [] s = "Aborted" -> a.aborted
      [] s = "Failed" -> a.failed
      [] s = "Succeeded" -> a.succeeded
      [] OTHER -> FALSE

CanonicalStatuses == <<"Running", "Aborted", "Failed", "Succeeded">>

Ids(ws) == [i \in 1..Len(ws) |-> ws[i].id]

(* The fetched records in ascending order of submission, ties in fetch    *)
(* order: minute by minute, the records of that minute as fetched.         *)
RECURSIVE FromMinute(_, _)
FromMinute(ws, t) ==
    IF t > MaxTime THEN <<>>
    ELSE SelectSeq(ws, LAMBDA w : w.submission = t) \o FromMinute(ws, t + 1)

RefSorted(ws) == FromMinute(ws, 0)

(* The batch of the k-th record of a sorted s: the number of gaps of at    *)
(* least T minutes up to it.                                               *)
RefBatchIndex(s, T, k) ==
    Cardinality({j \in 2..k : s[j].submission - s[j - 1].submission >= T})

RefMaxIndex ==
    RefBatchIndex(RefSorted(server), args.batch_interval_mins, Len(server))

LatestSubmission ==
    CHOOSE t \in {server[i].submission : i \in 1..Len(server)} :
        \A i \in 1..Len(server) : server[i].submission <= t

(* C1: with a batch selector and no fetched record, the query returns the  *)
(* empty sequence and raises nothing.                                      *)
C1_EmptyFetchReturnsEmpty ==
    (pc # "ready" /\ HasSelector /\ Len(server) = 0)
        => (Returned /\ err = "none" /\ workflows = <<>>)

(* C2: on a non-empty input, a batch_number_ago above the highest batch    *)
(* index gives the empty sequence and no error.                            *)
C2_OvershootIsEmpty ==
    (pc # "ready" /\ HasSelector /\ Len(server) > 0
        /\ args.batch_number_ago.val > RefMaxIndex)
        => (Returned /\ err = "none" /\ workflows = <<>>)

C2_Witness ==
    /\ pc = "returned" /\ HasSelector /\ Len(server) = 3
    /\ RefMaxIndex = 1 /\ args.batch_number_ago.val = 2
    /\ workflows = <<>> /\ err = "none"

(* C3: the result is the records of the sorted input whose batch, taken    *)
(* over all the fetched records whatever their status, is the target one,  *)
(* and whose status is then among the wanted ones.                         *)
C3_BatchThenFilter ==
    Returned =>
        LET s == RefSorted(server)
            highest == RefBatchIndex(s, args.batch_interval_mins, Len(s))
            Keep(k) ==
                /\ HasSelector =>
                      RefBatchIndex(s, args.batch_interval_mins, k)
                          = highest - args.batch_number_ago.val
                /\ AnyFlag => Flag(args, s[k].status)
            kept == SelectSeq([k \in 1..Len(s) |-> k], Keep)
        IN  Ids(workflows) = [i \in 1..Len(kept) |-> s[kept[i]].id]

(* An input on which filtering before batching gives another result. *)
C3_Witness ==
    /\ pc = "returned" /\ HasSelector /\ AnyFlag
    /\ args.batch_interval_mins > 0
    /\ LET other == QueryPipelineFilterFirst(server, args, statuses)
       IN  ~other.raised /\ Ids(other.workflows) # Ids(workflows)

(* C4: two consecutive records of the clustered sequence are in the same   *)
(* batch when their gap is below the threshold and in different batches    *)
(* when it is at least the threshold.                                      *)
C4_GapRule ==
    (Returned /\ HasSelector) =>
        /\ Len(batched) = Len(server)
        /\ \A i \in 2..Len(batched) :
              LET gap == batched[i].submission - batched[i - 1].submission
              IN  /\ gap >= 0
                  /\ batched[i].batch = batched[i - 1].batch
                        => gap < args.batch_interval_mins
                  /\ batched[i].batch # batched[i - 1].batch
                        => gap >= args.batch_interval_mins

(* Three records in one batch, the last at least the threshold after the first. *)
C4_Witness ==
    /\ pc = "returned" /\ HasSelector /\ Len(batched) = 3
    /\ batched[1].batch = batched[3].batch
    /\ batched[3].submission - batched[1].submission >= args.batch_interval_mins
    /\ args.batch_interval_mins > 0

(* C5: the batch indices start at 0, never decrease, rise by at most 1,    *)
(* and the maximum is the number of batches minus 1.                       *)
C5_IndicesFromZero ==
    (Returned /\ HasSelector /\ Len(server) > 0) =>
        /\ Len(batched) = Len(server)
        /\ batched[1].batch = 0
        /\ \A i \in 2..Len(batched) :
              batched[i].batch - batched[i - 1].batch \in {0, 1}
        /\ max_batch_number
              = Some(Cardinality({batched[i].batch : i \in 1..Len(batched)}) - 1)

C5_Witness ==
    /\ pc = "returned" /\ HasSelector /\ Len(batched) = 3
    /\ batched[2].batch = 0 /\ batched[3].batch = 1
    /\ max_batch_number = Some(1)

(* C6: batch_number_ago = 0 on a non-empty input selects, before the       *)
(* status filter, the records of the highest batch index, among them the   *)
(* latest submission.                                                      *)
C6_MostRecentBatch ==
    (Returned /\ HasSelector /\ Len(server) > 0
        /\ args.batch_number_ago.val = 0) =>
        /\ Len(selected) > 0
        /\ \E i \in 1..Len(selected) : selected[i].submission = LatestSubmission
        /\ selected = SelectSeq(batched, LAMBDA w : w.batch = RefMaxIndex)

C6_Witness ==
    /\ pc = "returned" /\ HasSelector /\ args.batch_number_ago.val = 0
    /\ Len(server) = 3 /\ Len(selected) = 2 /\ RefMaxIndex = 1
    /\ server[1].submission = LatestSubmission

(* C7: with no flag set the selection is None; otherwise it is the list of *)
(* the statuses whose flag is set, once each, in the order Running,        *)
(* Aborted, Failed, Succeeded.                                             *)
C7_StatusSelection ==
    pc # "ready" =>
        IF AnyFlag
        THEN /\ ~IsNone(statuses)
             /\ statuses.val
                   = SelectSeq(CanonicalStatuses, LAMBDA x : Flag(args, x))
        ELSE IsNone(statuses)

C7_Witness ==
    /\ pc = "queried"
    /\ args.failed /\ args.running /\ ~args.aborted /\ ~args.succeeded
    /\ statuses = Some(<<"Running", "Failed">>)

(* C8: the result holds fetched records only, each at most once and        *)
(* unchanged, ascending by submission with ties in fetch order.            *)
C8_StableSubsequence ==
    Returned =>
        /\ \A i \in 1..Len(workflows) :
              /\ workflows[i].id \in 1..Len(server)
              /\ workflows[i].status = server[workflows[i].id].status
              /\ workflows[i].submission = server[workflows[i].id].submission
        /\ \A i, j \in 1..Len(workflows) :
              i < j =>
                 \/ workflows[i].submission < workflows[j].submission
                 \/ /\ workflows[i].submission = workflows[j].submission
                    /\ workflows[i].id < workflows[j].id

(* A result with a tie, from an answer that came out of order. *)
C8_Witness ==
    /\ pc = "returned" /\ Len(workflows) = 3
    /\ workflows[1].submission < workflows[2].submission
    /\ workflows[2].submission = workflows[3].submission
    /\ server[1].submission > server[2].submission

(* The names under which the summary can file a record, and its count for *)
(* a name and a status, 0 when it holds none.                              *)
GroupNames == {"<not set>", "alpha", "beta"}

RefGroup(m) == IF IsNone(m.group) THEN "<not set>" ELSE m.group.val

CountIn(a, g, s) ==
    IF g \in DOMAIN a THEN (IF s \in DOMAIN a[g] THEN a[g][s] ELSE 0) ELSE 0

RECURSIVE SumCounts(_, _)
SumCounts(a, pairs) ==
    IF pairs = {} THEN 0
    ELSE LET p == CHOOSE q \in pairs : TRUE
         IN  CountIn(a, p[1], p[2]) + SumCounts(a, pairs \ {p})

(* C9: the summary maps each job group ("<not set>" without a label) and   *)
(* status to the number of records whose metadata has them; the counts     *)
(* add up to the number of records; no record gives the empty mapping.     *)
C9_SummaryCounts ==
    pc = "reported" =>
        /\ DOMAIN agg \subseteq GroupNames
        /\ \A g \in DOMAIN agg :
              /\ DOMAIN agg[g] \subseteq RecordStatuses
              /\ \A s \in DOMAIN agg[g] : agg[g][s] >= 1
        /\ \A g \in GroupNames, s \in RecordStatuses :
              CountIn(agg, g, s)
                 = Cardinality({i \in 1..Len(workflows) :
                                   /\ RefGroup(metadatas[workflows[i].id]) = g
                                   /\ metadatas[workflows[i].id].status = s})
        /\ SumCounts(agg, GroupNames \X RecordStatuses) = Len(workflows)
        /\ Len(workflows) = 0 => DOMAIN agg = {}

(* Two records of group alpha with different statuses, one without a group. *)
C9_Witness ==
    /\ pc = "reported" /\ Len(workflows) = 3
    /\ DOMAIN agg = {"alpha", "<not set>"}
    /\ CountIn(agg, "alpha", "Running") = 1
    /\ CountIn(agg, "alpha", "Submitted") = 1
    /\ CountIn(agg, "<not set>", "Running") = 1
    /\ workflows[1].status # metadatas[1].status

(* C10: the status list is None or non-empty, so `if statuses:` is the     *)
(* test `statuses is not None`; the filter runs exactly when a flag is     *)
(* set, and without a flag no record is dropped for its status.            *)
C10_FilterIffFlag ==
    pc # "ready" =>
        /\ IsNone(statuses) \/ Len(statuses.val) >= 1
        /\ ListIsTrue(statuses) <=> ~IsNone(statuses)
        /\ ListIsTrue(statuses) <=> AnyFlag
        /\ Returned =>
              IF AnyFlag
              THEN workflows
                      = SelectSeq(selected, LAMBDA w : Flag(args, w.status))
              ELSE workflows = selected

(* No flag, and a record with a status no flag names is returned. *)
C10_Witness ==
    /\ pc = "returned" /\ ~AnyFlag /\ Len(workflows) = 2
    /\ workflows[1].status = "Submitted" /\ workflows[2].status = "Running"

====
